---- MODULE Spec2Model ----
(***************************************************************************)
(* Model of the Nintendo NES loader (Nintendo_NES/nintendo_nes.py).        *)
(*                                                                         *)
(* One run is: the host probes the input with accept_file(li, n) and, when *)
(* a format name comes back, calls load_file(li, neflags, format).         *)
(* load_file is cut into the steps the source performs in order: reading   *)
(* the header, one step per segment block, describe_header_info, the       *)
(* mapper dispatch, the three file2base copies of the first branch, and    *)
(* the naming/entry-point tail.                                            *)
(*                                                                         *)
(* The database is kept as the log of writes made to it (db): zeromemory   *)
(* appends an extent of zero bytes, file2base an extent of file bytes.     *)
(* ByteAt reads an address back as the last write that covers it, so a     *)
(* byte is Unmapped, Zero, or the file byte at a given offset.             *)
(***************************************************************************)
EXTENDS Integers, Sequences, FiniteSets, TLC

VARIABLES
    li,        \* the input: [len, head (first bytes), prg, cb0, cb1]
    n,         \* accept_file's second argument
    pc,        \* position of the run
    format,    \* what accept_file returned (Refused or the format name)
    proc,      \* processor type set by set_processor_type
    size,      \* load_file's local `size`
    nheader,   \* the decoded NES_HEADER (NoHeader before decoding)
    segs,      \* segments created by AddSeg/RenameSeg, in order
    db,        \* the log of writes to the database
    reqs,      \* the file2base calls made, with their outcome
    diags,     \* the Warning() calls made
    strategy,  \* the branch of the mapper dispatch that was taken
    names,     \* addresses named by naming()
    entry,     \* the entry point registered by add_entry
    ret        \* load_file's return value, <<v>> (NoRet while it has not returned)

vars == <<li, n, pc, format, proc, size, nheader, segs, db, reqs, diags,
          strategy, names, entry, ret>>

----------------------------------------------------------------------------
(* Program constants                                                       *)

ROM_SIGNATURE_OFFSET == 0
ROM_SIGNATURE        == <<78, 69, 83, 26>>      \* "NES\x1A"
ROM_FORMAT_NAME      == "Nintendo NES ROM"
ROM_SIGNATURE_LENGTH == 4
LEN_NES_HEADER       == 16

RAM_START     == 0
RAM_SIZE      == 8192
IOREG_START   == 8192
IOREG_SIZE_wide == 8224 + 32
IOREG_SIZE    == 8224
EXPROM_START  == 16416
EXPROM_SIZE   == 8160
SRAM_START    == 24576
SRAM_SIZE     == 8192
TRAINER_START == 28672
TRAINER_SIZE  == 512
ROM_START     == 32768
ROM_SIZE      == 32768

PRG_PAGE_SIZE == 16384
CHR_PAGE_SIZE == 8192

MAPPER_NONE         == 0
MAPPER_MMC1         == 1
MAPPER_UxROM        == 2
MAPPER_CNROM        == 3
MAPPER_MMC3         == 4
MAPPER_MMC5         == 5
MAPPER_AxROM        == 7
MAPPER_MMC2         == 9
MAPPER_COLOR_DREAMS == 11
MAPPER_BxROM        == 34
MAPPER_GNROM        == 66
MAPPER_CAMERICA     == 71

\* A name as a condition evaluates it: bound to a value, or never bound by
\* the module, so that evaluating it raises NameError.
Bound(v) == [bound |-> TRUE, val |-> v]
Unbound  == [bound |-> FALSE, val |-> 0]

\* The module binds MAPPER_CAMERICA; line 151 reads MAPPER_CAMERIC.
MAPPER_CAMERIC == Unbound

----------------------------------------------------------------------------
(* Bounds of the model                                                     *)

MaxPrgPages   == 2      \* nb_prg_page_16k ranges over 0..MaxPrgPages
MaxFileChunks == 5      \* the input holds 0..MaxFileChunks 8K chunks of data

----------------------------------------------------------------------------
(* Bit arithmetic on unsigned bytes, as Python's & | >> compute it         *)

RECURSIVE BitAnd(_, _)
BitAnd(x, y) ==
    IF x = 0 \/ y = 0 THEN 0
    ELSE (x % 2) * (y % 2) + 2 * BitAnd(x \div 2, y \div 2)

RECURSIVE BitOr(_, _)
BitOr(x, y) ==
    IF x = 0 THEN y
    ELSE IF y = 0 THEN x
    ELSE (IF x % 2 = 1 \/ y % 2 = 1 THEN 1 ELSE 0) + 2 * BitOr(x \div 2, y \div 2)

RECURSIVE ShiftRight(_, _)
ShiftRight(x, k) == IF k = 0 THEN x ELSE ShiftRight(x \div 2, k - 1)

Min(a, b) == IF a <= b THEN a ELSE b

----------------------------------------------------------------------------
(* Values                                                                  *)

NoHeader == [decoded |-> FALSE, nb_prg_page_16k |-> 0,
             rom_control_byte_0 |-> 0, rom_control_byte_1 |-> 0]
NoRet    == <<>>
Refused  == "0"
NoEntry  == <<>>

Unmapped    == [kind |-> "unmapped", off |-> 0]
Zero        == [kind |-> "zero", off |-> 0]
FileByte(o) == [kind |-> "file", off |-> o]

\* li.seek(pos); li.read(k) within the first bytes of the input: the bytes
\* available from pos, at most k of them.
ReadHead(pos, k) == SubSeq(li.head, pos + 1, Min(pos + k, Len(li.head)))

\* The byte of the database at address a, read from the write log d.
RECURSIVE ByteAtFrom(_, _, _)
ByteAtFrom(d, a, i) ==
    IF i = 0 THEN Unmapped
    ELSE IF d[i].ea1 <= a /\ a < d[i].ea2
         THEN (IF d[i].kind = "zero" THEN Zero
               ELSE FileByte(d[i].off + (a - d[i].ea1)))
         ELSE ByteAtFrom(d, a, i - 1)

ByteAt(d, a) == ByteAtFrom(d, a, Len(d))

\* Word(ea): the two bytes at ea, ea+1.
Word(d, ea) == <<ByteAt(d, ea), ByteAt(d, ea + 1)>>

----------------------------------------------------------------------------
(* Helpers of the loader                                                   *)

\* zeromemory(ea, size): PatchByte(ea + i, 0) for every i in 0..size-1.
zeromemory(d, ea, sz) ==
    Append(d, [kind |-> "zero", ea1 |-> ea, ea2 |-> ea + sz, off |-> 0])

\* idc.AddSeg(start, end, ...) followed by idc.RenameSeg(start, name).
AddSeg(s, start, end, name) ==
    Append(s, [name |-> name, start |-> start, end |-> end])

\* Bytes of the input readable from position pos, at most want of them.
Available(pos, want) ==
    IF pos < 0 \/ pos >= li.len THEN 0 ELSE Min(want, li.len - pos)

\* li.file2base(pos, ea1, ea2, 0): the numbers of bytes the host may have
\* stored when it returns. A read that the input covers stores all of them;
\* a read past the end of the input is a read error, after which the host
\* has stored either nothing or the bytes that were available.
File2BaseOutcomes(pos, ea1, ea2) ==
    LET want == ea2 - ea1
        have == Available(pos, want)
    IN IF have = want THEN {want} ELSE {0, have}

\* The database and call log after li.file2base(pos, ea1, ea2, 0) stored w
\* bytes (an empty extent when w = 0); the return value (1 ok, 0 read
\* error) is discarded by the caller.
File2BaseDb(d, pos, ea1, w) ==
    Append(d, [kind |-> "file", ea1 |-> ea1, ea2 |-> ea1 + w, off |-> pos])

File2BaseReq(r, pos, ea1, ea2, w) ==
    Append(r, [pos |-> pos, ea1 |-> ea1, ea2 |-> ea2, stored |-> w,
               rc |-> IF w = ea2 - ea1 THEN 1 ELSE 0])

\* accept_file(li, n); Refused stands for its `return 0`.
accept_file_any_signature(k) == IF k > 0 THEN Refused ELSE ROM_FORMAT_NAME
accept_file(k) ==
    IF k > 0 THEN Refused
    ELSE IF ReadHead(ROM_SIGNATURE_OFFSET, ROM_SIGNATURE_LENGTH) = ROM_SIGNATURE
         THEN ROM_FORMAT_NAME
    ELSE Refused

\* (nheader.rom_control_byte_0 & 0x02) != 0x00
HasSram_bit2(h) == BitAnd(h.rom_control_byte_0, 4) # 0
HasSram(h)    == BitAnd(h.rom_control_byte_0, 2) # 0
\* (nheader.rom_control_byte_0 & 0x04) != 0x00
HasTrainer(h) == BitAnd(h.rom_control_byte_0, 4) # 0

\* offset = LEN_NES_HEADER; if trainer bit: offset = offset + TRAINER_SIZE
BaseOffset(h) == IF HasTrainer(h) THEN LEN_NES_HEADER + TRAINER_SIZE
                 ELSE LEN_NES_HEADER

\* mapper_version
MapperVersion(h) ==
    BitOr(ShiftRight(BitAnd(h.rom_control_byte_0, 240), 4),
          BitAnd(h.rom_control_byte_1, 240))

\* `mv == t1 or mv == t2 or ...`, evaluated left to right with short
\* circuit; a term that is an unbound name raises NameError when reached.
RECURSIVE OrChain(_, _, _)
OrChain(mv, terms, i) ==
    IF i > Len(terms) THEN "false"
    ELSE IF ~terms[i].bound THEN "NameError"
    ELSE IF mv = terms[i].val THEN "true"
    ELSE OrChain(mv, terms, i + 1)

FirstCaseTerms == <<Bound(MAPPER_NONE), Bound(MAPPER_MMC1), Bound(MAPPER_UxROM),
                    Bound(MAPPER_CNROM), Bound(MAPPER_MMC3), Bound(MAPPER_MMC5),
                    MAPPER_CAMERIC, Bound(MAPPER_GNROM)>>
ThirdCaseTerms == <<Bound(MAPPER_AxROM), Bound(MAPPER_COLOR_DREAMS),
                    Bound(MAPPER_BxROM)>>

\* The if/elif/else chain over mapper_version: the branch entered, or
\* "NameError" when evaluating a condition raises.
Branch(mv) ==
    LET c1 == OrChain(mv, FirstCaseTerms, 1)
    IN IF c1 = "NameError" THEN "NameError"
       ELSE IF c1 = "true" THEN "first"
       ELSE IF mv = MAPPER_MMC2 THEN "second"
       ELSE IF OrChain(mv, ThirdCaseTerms, 1) = "true" THEN "third"
       ELSE "else"

\* Addresses named by naming().
NamedAddresses == {65530, 65532, 65534} \cup (8192 .. 8199) \cup (16384 .. 16407)

----------------------------------------------------------------------------
(* Inputs                                                                  *)

\* First four bytes of an input: the signature, a near miss, another format.
Heads == {ROM_SIGNATURE, <<78, 69, 83, 0>>, <<77, 90, 144, 0>>}

\* Input lengths: two inputs shorter than a header, then a header followed
\* by an optional 512-byte trainer and 0..MaxFileChunks 8K chunks.
FileLengths ==
    {3, 15} \cup
    { LEN_NES_HEADER + t * TRAINER_SIZE + k * CHR_PAGE_SIZE :
        t \in {0, 1}, k \in 0 .. MaxFileChunks }

\* Control bytes: flag bits 0..3 in the combinations the loader tests (bits
\* 1 and 2) plus two it ignores, with a choice of mapper nibbles.
LowNibbles  == {0, 2, 4, 6, 9}
HighNibbles == {0, 1, 2, 5, 7, 9, 11, 15}
ControlByte0Values == { f + 16 * h : f \in LowNibbles, h \in HighNibbles }
ControlByte1Values == {0, 15, 32, 64, 240}

Inputs ==
    { [len |-> l, head |-> SubSeq(hd, 1, Min(4, l)), prg |-> p,
       cb0 |-> c0, cb1 |-> c1] :
        l \in FileLengths, hd \in Heads, p \in 0 .. MaxPrgPages,
        c0 \in ControlByte0Values, c1 \in ControlByte1Values }

----------------------------------------------------------------------------
(* The run                                                                 *)

Init ==
    /\ li \in Inputs
    /\ n \in {0, 1}
    /\ pc = "accept"
    /\ format = Refused
    /\ proc = "none"
    /\ size = 0
    /\ nheader = NoHeader
    /\ segs = <<>>
    /\ db = <<>>
    /\ reqs = <<>>
    /\ diags = <<>>
    /\ strategy = "none"
    /\ names = {}
    /\ entry = NoEntry
    /\ ret = NoRet

\* The host probes the input; it loads it only under a name that came back.
AcceptFile ==
    /\ pc = "accept"
    /\ format' = accept_file(n)
    /\ pc' = IF format' = Refused THEN "rejected" ELSE "load"
    /\ UNCHANGED <<li, n, proc, size, nheader, segs, db, reqs, diags,
                   strategy, names, entry, ret>>

\* load_file, lines 96-105: format check, processor, size, header.
LoadFileBegin ==
    /\ pc = "load"
    /\ IF format # ROM_FORMAT_NAME
       THEN /\ diags' = Append(diags, [msg |-> "Unknown format name", arg |-> 0])
            /\ ret' = <<0>>
            /\ pc' = "returned"
            /\ UNCHANGED <<proc, size, nheader>>
       ELSE /\ proc' = "M6502"
            /\ size' = li.len
            /\ IF li.len < LEN_NES_HEADER
               THEN /\ pc' = "ValueError"
                    /\ UNCHANGED nheader
               ELSE /\ nheader' = [decoded |-> TRUE,
                                   nb_prg_page_16k |-> li.prg,
                                   rom_control_byte_0 |-> li.cb0,
                                   rom_control_byte_1 |-> li.cb1]
                    /\ pc' = "ram"
            /\ UNCHANGED <<diags, ret>>
    /\ UNCHANGED <<li, n, format, segs, db, reqs, strategy, names, entry>>

\* What a segment block leaves unchanged.
segRest == <<li, n, format, proc, size, nheader, reqs, diags, strategy,
             names, entry, ret>>

\* Lines 107-110.
RamSegment ==
    /\ pc = "ram"
    /\ segs' = AddSeg(segs, RAM_START, RAM_START + RAM_SIZE, "RAM")
    /\ db' = zeromemory(db, RAM_START, RAM_SIZE)
    /\ pc' = "ioreg"
    /\ UNCHANGED segRest

\* Lines 112-115.
IoregSegment ==
    /\ pc = "ioreg"
    /\ segs' = AddSeg(segs, IOREG_START, IOREG_START + IOREG_SIZE, "IOREG")
    /\ db' = zeromemory(db, IOREG_START, IOREG_SIZE)
    /\ pc' = "sram"
    /\ UNCHANGED segRest

\* Lines 117-122.
SramSegment ==
    /\ pc = "sram"
    /\ IF HasSram(nheader)
       THEN /\ segs' = AddSeg(segs, SRAM_START, SRAM_START + SRAM_SIZE, "SRAM")
            /\ db' = zeromemory(db, SRAM_START, SRAM_SIZE)
       ELSE UNCHANGED <<segs, db>>
    /\ pc' = "exprom"
    /\ UNCHANGED segRest

\* Lines 124-127.
ExpromSegment ==
    /\ pc = "exprom"
    /\ segs' = AddSeg(segs, EXPROM_START, EXPROM_START + EXPROM_SIZE, "EXPROM")
    /\ db' = zeromemory(db, EXPROM_START, EXPROM_SIZE)
    /\ pc' = "trainer"
    /\ UNCHANGED segRest

\* Lines 129-134.
TrainerSegment ==
    /\ pc = "trainer"
    /\ IF HasTrainer(nheader)
       THEN /\ segs' = AddSeg(segs, TRAINER_START, TRAINER_START + TRAINER_SIZE,
                              "TRAINER")
            /\ db' = zeromemory(db, TRAINER_START, TRAINER_SIZE)
       ELSE UNCHANGED <<segs, db>>
    /\ pc' = "rom"
    /\ UNCHANGED segRest

RomSegment_no_zeromemory ==
    /\ pc = "rom"
    /\ segs' = AddSeg(segs, ROM_START, ROM_START + ROM_SIZE, "ROM")
    /\ pc' = "describe"
    /\ UNCHANGED db
    /\ UNCHANGED segRest

\* Lines 136-140.
RomSegment ==
    /\ pc = "rom"
    /\ segs' = AddSeg(segs, ROM_START, ROM_START + ROM_SIZE, "ROM")
    /\ db' = zeromemory(db, ROM_START, ROM_SIZE)
    /\ pc' = "describe"
    /\ UNCHANGED segRest

\* describe_header_info(li): re-reads the header bytes for the listing.
DescribeHeaderInfo ==
    /\ pc = "describe"
    /\ pc' = "dispatch"
    /\ UNCHANGED <<li, n, format, proc, size, nheader, segs, db, reqs, diags,
                   strategy, names, entry, ret>>

\* Lines 144-152 and 168-175: mapper_version and the branch conditions.
MapperDispatch ==
    /\ pc = "dispatch"
    /\ LET mv == MapperVersion(nheader)
           b  == Branch(mv)
       IN /\ strategy' = b
          /\ pc' = CASE b = "NameError" -> "NameError"
                     [] b = "first"     -> "prg_first"
                     [] OTHER           -> "naming"
          /\ diags' = CASE b = "second" ->
                             Append(diags, [msg |-> "Second case mapper", arg |-> 0])
                        [] b = "third"  ->
                             Append(diags, [msg |-> "Third case mapper", arg |-> 0])
                        [] b = "else"   ->
                             Append(diags, [msg |-> "Mapper %d is not supported",
                                            arg |-> mv])
                        [] OTHER        -> diags
    /\ UNCHANGED <<li, n, format, proc, size, nheader, segs, db, reqs,
                   names, entry, ret>>

\* What a copy leaves unchanged.
copyRest == <<li, n, format, proc, size, nheader, segs, diags, strategy,
              names, entry, ret>>

\* Lines 153-157.
PrgFirstBank ==
    /\ pc = "prg_first"
    /\ LET offset == BaseOffset(nheader)
           ea1    == ROM_START
           ea2    == ROM_START + PRG_PAGE_SIZE
       IN \E w \in File2BaseOutcomes(offset, ea1, ea2) :
             /\ db' = File2BaseDb(db, offset, ea1, w)
             /\ reqs' = File2BaseReq(reqs, offset, ea1, ea2, w)
    /\ pc' = "prg_last"
    /\ UNCHANGED copyRest

\* Lines 158-162.
PrgLastBank ==
    /\ pc = "prg_last"
    /\ LET offset == BaseOffset(nheader)
                       + (nheader.nb_prg_page_16k - 1) * PRG_PAGE_SIZE
           ea1    == ROM_START + PRG_PAGE_SIZE
           ea2    == ROM_START + PRG_PAGE_SIZE + PRG_PAGE_SIZE
       IN \E w \in File2BaseOutcomes(offset, ea1, ea2) :
             /\ db' = File2BaseDb(db, offset, ea1, w)
             /\ reqs' = File2BaseReq(reqs, offset, ea1, ea2, w)
    /\ pc' = "chr"
    /\ UNCHANGED copyRest

\* Lines 163-167.
ChrBank ==
    /\ pc = "chr"
    /\ LET offset == BaseOffset(nheader)
                       + PRG_PAGE_SIZE * nheader.nb_prg_page_16k
           ea1    == RAM_START
           ea2    == RAM_START + CHR_PAGE_SIZE
       IN \E w \in File2BaseOutcomes(offset, ea1, ea2) :
             /\ db' = File2BaseDb(db, offset, ea1, w)
             /\ reqs' = File2BaseReq(reqs, offset, ea1, ea2, w)
    /\ pc' = "naming"
    /\ UNCHANGED copyRest

\* Lines 177-182: naming(), add_entry, startIP/beginEA, return 1.
NamingAndEntry ==
    /\ pc = "naming"
    /\ names' = NamedAddresses
    /\ entry' = Word(db, 65532)
    /\ ret' = <<1>>
    /\ pc' = "done"
    /\ UNCHANGED <<li, n, format, proc, size, nheader, segs, db, reqs, diags,
                   strategy>>

Next ==
    \/ AcceptFile
    \/ LoadFileBegin
    \/ RamSegment
    \/ IoregSegment
    \/ SramSegment
    \/ ExpromSegment
    \/ TrainerSegment
    \/ RomSegment
    \/ DescribeHeaderInfo
    \/ MapperDispatch
    \/ PrgFirstBank
    \/ PrgLastBank
    \/ ChrBank
    \/ NamingAndEntry

Spec == Init /\ [][Next]_vars

----------------------------------------------------------------------------
(* The mapper dispatch as a function of the two control bytes, over every  *)
(* pair of byte values: the header is decoded and the branch conditions of *)
(* lines 144-175 are evaluated on it.                                      *)

ClassifyInputs ==
    { [len |-> LEN_NES_HEADER, head |-> ROM_SIGNATURE, prg |-> 1,
       cb0 |-> c0, cb1 |-> c1] : c0 \in 0 .. 255, c1 \in 0 .. 255 }

InitClassify ==
    /\ li \in ClassifyInputs
    /\ n = 0
    /\ pc = "classify"
    /\ format = ROM_FORMAT_NAME
    /\ proc = "M6502"
    /\ size = li.len
    /\ nheader = [decoded |-> TRUE, nb_prg_page_16k |-> li.prg,
                  rom_control_byte_0 |-> li.cb0, rom_control_byte_1 |-> li.cb1]
    /\ segs = <<>>
    /\ db = <<>>
    /\ reqs = <<>>
    /\ diags = <<>>
    /\ strategy = "none"
    /\ names = {}
    /\ entry = NoEntry
    /\ ret = NoRet

Classify ==
    /\ pc = "classify"
    /\ strategy' = Branch(MapperVersion(nheader))
    /\ pc' = "classified"
    /\ UNCHANGED <<li, n, format, proc, size, nheader, segs, db, reqs, diags,
                   names, entry, ret>>

NextClassify == Classify

SpecClassify == InitClassify /\ [][NextClassify]_vars

----------------------------------------------------------------------------
(* Vocabulary of the properties, computed from the input bytes alone       *)

\* The mapper id of the input's control bytes.
IdOf(c0, c1) == (c0 \div 16) + 16 * (c1 \div 16)
MapperId     == IdOf(li.cb0, li.cb1)

StandardIds == {0, 1, 2, 3, 4, 5, 71, 66}
MMC2Ids     == {9}
AxROMIds    == {7, 11, 34}

\* The branch the classification table assigns to a mapper id.
ExpectedBranch(id) ==
    IF id \in StandardIds THEN "first"
    ELSE IF id \in MMC2Ids THEN "second"
    ELSE IF id \in AxROMIds THEN "third"
    ELSE "else"

Bit1Set == (li.cb0 \div 2) % 2 = 1
Bit2Set == (li.cb0 \div 4) % 2 = 1
TrainerAdjustment == IF Bit2Set THEN 512 ELSE 0

SegNames == { segs[i].name : i \in DOMAIN segs }

\* Every segment block of load_file has run.
Built == pc \in {"describe", "dispatch", "prg_first", "prg_last", "chr",
                 "naming", "done", "NameError"}

\* load_file has ended past the mapper dispatch, by return or by exception.
Ended == pc \in {"done", "NameError"}

Overlap(r, s) == r.start < s.end /\ s.start < r.end

\* Every address of [lo, hi) reads as zero.
AllZero(lo, hi) == \A a \in lo .. (hi - 1) : ByteAt(db, a) = Zero

\* Every address of [lo, hi) holds the file byte at off + (a - lo).
HoldsFile(lo, hi, off) ==
    \A a \in lo .. (hi - 1) : ByteAt(db, a) = FileByte(off + (a - lo))

\* file2base was called with exactly these arguments.
Requested(pos, ea1, ea2) ==
    \E i \in DOMAIN reqs :
        reqs[i].pos = pos /\ reqs[i].ea1 = ea1 /\ reqs[i].ea2 = ea2

----------------------------------------------------------------------------
(* C1 *)

\* C1 (as stated): no two segments created by a load have intersecting
\* [start, end) intervals, for every header.
C1_NoOverlap ==
    \A i, j \in DOMAIN segs : i # j => ~Overlap(segs[i], segs[j])

\* C1 (amended): the only two segments that ever intersect are SRAM and
\* TRAINER; they intersect whenever both exist, TRAINER lying inside SRAM.
\* Every other pair is disjoint, and the segments have the table's bounds.
C1_NoOverlapExceptSramTrainer ==
    /\ \A i, j \in DOMAIN segs :
          (i # j /\ Overlap(segs[i], segs[j]))
             => {segs[i].name, segs[j].name} = {"SRAM", "TRAINER"}
    /\ \A i, j \in DOMAIN segs :
          (segs[i].name = "SRAM" /\ segs[j].name = "TRAINER")
             => /\ segs[i].start <= segs[j].start
                /\ segs[j].end <= segs[i].end
    /\ \A i \in DOMAIN segs :
          <<segs[i].name, segs[i].start, segs[i].end>> \in
             { <<"RAM", 0, 8192>>, <<"IOREG", 8192, 16416>>,
               <<"EXPROM", 16416, 24576>>, <<"SRAM", 24576, 32768>>,
               <<"TRAINER", 28672, 29184>>, <<"ROM", 32768, 65536>> }

\* A finished layout that has both SRAM and TRAINER.
C1_Witness ==
    /\ Built
    /\ Bit1Set /\ Bit2Set
    /\ {"SRAM", "TRAINER", "ROM"} \subseteq SegNames

----------------------------------------------------------------------------
(* C2 *)

\* C2: for a mapper id that is not Standard, load_file emits a diagnostic
\* for the mapper, copies no file data, leaves every byte zero, and runs to
\* completion: naming and entry point done, 1 returned.
C2_UnsupportedCompletes ==
    (Ended /\ MapperId \notin StandardIds)
       => /\ pc = "done"
          /\ ret = <<1>>
          /\ names = NamedAddresses
          /\ Len(diags) = 1
          /\ reqs = <<>>
          /\ \A i \in DOMAIN db : db[i].kind = "zero"

----------------------------------------------------------------------------
(* C3 *)

\* C3: every pair of control bytes is dispatched to the branch the table
\* assigns to its mapper id: first (Standard) for {0,1,2,3,4,5,71,66},
\* second (MMC2) for 9, third (AxROM family) for {7,11,34}, else otherwise.
C3_DispatchTable ==
    pc = "classified" => strategy = ExpectedBranch(MapperId)

----------------------------------------------------------------------------
(* C4 *)

\* C4: under the Standard strategy, with an input that holds the PRG banks,
\* file2base is asked for 16384 bytes at 16 + trainerAdjustment into
\* [0x8000,0xC000) and for 16384 bytes of the last bank into
\* [0xC000,0x10000), the ROM bytes are those file bytes, and with one PRG
\* page the two halves are equal.
C4_StandardPrgBanks ==
    LET first == 16 + TrainerAdjustment
        last  == 16 + TrainerAdjustment + (li.prg - 1) * 16384
    IN (Ended /\ MapperId \in StandardIds /\ li.prg >= 1
          /\ last + 16384 <= li.len)
          => /\ Requested(first, 32768, 49152)
             /\ Requested(last, 49152, 65536)
             /\ HoldsFile(32768, 49152, first)
             /\ HoldsFile(49152, 65536, last)
             /\ li.prg = 1 =>
                   \A a \in 32768 .. 49151 :
                       ByteAt(db, a) = ByteAt(db, a + 16384)

----------------------------------------------------------------------------
(* C5 *)

\* C5: once the segment blocks have run, the segments are exactly RAM,
\* IOREG, EXPROM and ROM, plus SRAM iff bit 1 of control byte 0 is set, plus
\* TRAINER iff bit 2 is set, each created once, whatever the mapper id; and
\* at no point does SRAM exist without bit 1 or TRAINER without bit 2.
C5_RegionSet ==
    /\ Built =>
          /\ SegNames = {"RAM", "IOREG", "EXPROM", "ROM"}
                          \cup (IF Bit1Set THEN {"SRAM"} ELSE {})
                          \cup (IF Bit2Set THEN {"TRAINER"} ELSE {})
          /\ Len(segs) = Cardinality(SegNames)
    /\ "SRAM" \in SegNames => Bit1Set
    /\ "TRAINER" \in SegNames => Bit2Set

\* A load that ended in the dispatch's exception with SRAM and no TRAINER.
C5_Witness ==
    /\ pc = "NameError"
    /\ Bit1Set /\ ~Bit2Set
    /\ "SRAM" \in SegNames /\ "TRAINER" \notin SegNames

----------------------------------------------------------------------------
(* C6 *)

\* C6: when a copy's file offset plus its length exceeds the input's
\* length, the load reports it (a diagnostic, or a failing return) and the
\* destination of that copy stays zero-filled.
C6_TruncatedSourceReported ==
    \A i \in DOMAIN reqs :
        (pc = "done" /\ reqs[i].pos + (reqs[i].ea2 - reqs[i].ea1) > li.len)
           => /\ (diags # <<>> \/ ret # <<1>>)
              /\ AllZero(reqs[i].ea1, reqs[i].ea2)

----------------------------------------------------------------------------
(* C7 *)

\* C7: for an input whose first 4 bytes are not the signature, or that is
\* shorter than 16 bytes, no segment is created, no byte is written, no
\* copy is requested and load_file never returns success: the run stops at
\* the refusal of accept_file or at the exception of the header decode.
C7_InvalidImageNoOutput ==
    (li.head # <<78, 69, 83, 26>> \/ li.len < 16)
       => /\ segs = <<>>
          /\ db = <<>>
          /\ reqs = <<>>
          /\ names = {}
          /\ ret # <<1>>
          /\ pc \in {"accept", "load", "rejected", "ValueError"}
          /\ pc = "load" => li.head = <<78, 69, 83, 26>>

\* A 15-byte input with the signature: accepted, then the decode raises.
C7_Witness ==
    /\ pc = "ValueError"
    /\ li.len = 15
    /\ li.head = <<78, 69, 83, 26>>
    /\ segs = <<>>

----------------------------------------------------------------------------
(* C8 *)

\* C8: when the trainer bit is set and the input holds the trainer, after
\* the load TRAINER [0x7000,0x7200) holds the file bytes [16,528).
C8_TrainerLoaded ==
    (pc = "done" /\ Bit2Set /\ li.len >= 528)
       => HoldsFile(28672, 29184, 16)

----------------------------------------------------------------------------
(* C9 *)

\* C9: every zero-fill precedes every copy of file data in the order of
\* writes, and when the first copy is requested every segment the header
\* calls for exists and has been zero-filled over its whole extent.
C9_ZeroFillBeforeCopy ==
    /\ \A i, j \in DOMAIN db :
          (db[i].kind = "zero" /\ db[j].kind = "file") => i < j
    /\ (reqs # <<>> \/ \E i \in DOMAIN db : db[i].kind = "file")
          => /\ {"RAM", "IOREG", "EXPROM", "ROM"} \subseteq SegNames
             /\ Bit1Set => "SRAM" \in SegNames
             /\ Bit2Set => "TRAINER" \in SegNames
             /\ \A s \in DOMAIN segs :
                   \E i \in DOMAIN db :
                       /\ db[i].kind = "zero"
                       /\ db[i].ea1 = segs[s].start
                       /\ db[i].ea2 = segs[s].end

\* A finished load with SRAM and TRAINER that stored file bytes.
C9_Witness ==
    /\ pc = "done"
    /\ Bit1Set /\ Bit2Set
    /\ \E i \in DOMAIN db : db[i].kind = "file" /\ db[i].ea2 > db[i].ea1

----------------------------------------------------------------------------
(* C10 *)

\* C10: under the Standard strategy, with an input that holds the first CHR
\* bank, file2base is asked for 8192 bytes at
\* 16 + trainerAdjustment + prgPages16k * 16384 into [0x0000,0x2000), RAM
\* holds those file bytes, and that 8192-byte copy has no other destination.
C10_StandardChrBank ==
    LET chr == 16 + TrainerAdjustment + li.prg * 16384
    IN (Ended /\ MapperId \in StandardIds /\ chr + 8192 <= li.len)
          => /\ Requested(chr, 0, 8192)
             /\ HoldsFile(0, 8192, chr)
             /\ \A i \in DOMAIN reqs :
                   (reqs[i].ea2 - reqs[i].ea1 = 8192)
                      => (reqs[i].ea1 = 0 /\ reqs[i].pos = chr)

====
